---- MODULE Spec2Model ----
(***************************************************************************)
(* Entanglement distribution protocols of simplequantnetsim:               *)
(* SP_protocol, MPG_protocol and MPC_protocol driven by _run_protocol,     *)
(* the link evolution of run_entanglement_step and the statistics of       *)
(* _multipartite_rate / update_graph_usage.                                *)
(*                                                                         *)
(* Quotients (rate, usage_fraction, avg_links_used) are kept as            *)
(* numerator/denominator pairs.                                            *)
(***************************************************************************)
EXTENDS Integers, Sequences, FiniteSets, TLC

MaxReps == 2
MaxTimesteps == 2
MaxQc == 2
MaxLength == 3

\* p_edge is 0, 1/2 or 1, stored doubled.  A draw r of np.random.rand lies in
\* [0, 1/2) or in [1/2, 1) and is stored as 0 or 1, so that p_edge > r reads
\* the same on the stored values.
Probabilities == {0, 1, 2}
Draws == {0, 1}
Certain == CHOOSE p \in Probabilities : \A q \in Probabilities : q <= p

Range(s) == {s[k] : k \in DOMAIN s}

RECURSIVE SumSeq(_)
SumSeq(s) == IF Len(s) = 0 THEN 0 ELSE Head(s) + SumSeq(Tail(s))

(***************************************************************************)
(* networkx graphs.  An edge is the set of its two end nodes.  A graph is  *)
(* given by its node order and the order in which add_edge was called;     *)
(* G.edges() walks the nodes in order and, for each, its neighbours in     *)
(* insertion order, reporting an edge at its first end node.               *)
(***************************************************************************)
Other(e, n) == CHOOSE m \in e : m # n

RECURSIVE Dedup(_)
Dedup(s) ==
    IF s = <<>> THEN <<>>
    ELSE LET h == Head(s)
             keep(x) == x # h
         IN  <<h>> \o Dedup(SelectSeq(Tail(s), keep))

RECURSIVE MapOther(_, _)
MapOther(es, n) ==
    IF es = <<>> THEN <<>> ELSE <<Other(Head(es), n)>> \o MapOther(Tail(es), n)

Adjacency(adds, n) ==
    LET touches(e) == n \in e
    IN  Dedup(MapOther(SelectSeq(adds, touches), n))

RECURSIVE EdgesFrom(_, _, _)
EdgesFrom(nodeSeq, adds, k) ==
    IF k > Len(nodeSeq) THEN <<>>
    ELSE LET n == nodeSeq[k]
             seen == {nodeSeq[j] : j \in 1..(k - 1)}
             fresh(m) == m \notin seen
             nbrs == SelectSeq(Adjacency(adds, n), fresh)
         IN  [x \in 1..Len(nbrs) |-> {n, nbrs[x]}] \o EdgesFrom(nodeSeq, adds, k + 1)

EdgesView(nodeSeq, adds) == EdgesFrom(nodeSeq, adds, 1)

(***************************************************************************)
(* Paths: sequences of distinct nodes whose consecutive nodes are joined.  *)
(***************************************************************************)
SimplePaths(V, E, s, d) ==
    UNION { { p \in [1..len -> V] :
                /\ p[1] = s
                /\ p[len] = d
                /\ \A a, b \in 1..len : a # b => p[a] # p[b]
                /\ \A a \in 1..(len - 1) : {p[a], p[a + 1]} \in E }
            : len \in 1..Cardinality(V) }

has_path(V, E, s, d) == SimplePaths(V, E, s, d) # {}

\* nx.shortest_path without a weight: any path with the fewest hops.
shortest_path(V, E, s, d) ==
    LET all == SimplePaths(V, E, s, d)
    IN  { p \in all : \A q \in all : Len(p) <= Len(q) }

PathEdgeSeq(path) == [k \in 1..(Len(path) - 1) |-> {path[k], path[k + 1]}]

PathEdges(path) == Range(PathEdgeSeq(path))

node_connected_component(V, E, s) == { d \in V : has_path(V, E, s, d) }

(***************************************************************************)
(* graph.py                                                                *)
(***************************************************************************)
\* Variant: only the edges are cleared; the nodes are given back entangled.
reset_graph_state_EdgesOnly(E, V) ==
    [edge_entangled |-> [e \in E |-> FALSE],
     edge_age       |-> [e \in E |-> 0],
     node_entangled |-> [n \in V |-> TRUE],
     node_age       |-> [n \in V |-> 0]]

\* reset_graph_state: every edge and node entangled = False, age = 0.
reset_graph_state(E, V) ==
    [edge_entangled |-> [e \in E |-> FALSE],
     edge_age       |-> [e \in E |-> 0],
     node_entangled |-> [n \in V |-> FALSE],
     node_age       |-> [n \in V |-> 0]]

\* reset_graph_usage: usage_count = 0 and usage_fraction = 0 on every node.
reset_graph_usage(V) ==
    [count    |-> [n \in V |-> 0],
     fraction |-> [n \in V |-> [num |-> 0, den |-> 1]]]

\* update_graph_usage: usage_fraction = usage_count / reps.
update_graph_usage(count, reps) ==
    [n \in DOMAIN count |-> [num |-> count[n], den |-> reps]]

\* get_entangled_subgraph: the edges of G whose entangled attribute is set.
get_entangled_subgraph(E, entangled) == { e \in E : entangled[e] }

(***************************************************************************)
(* protocols.py: _get_star.  T is the working copy that loses the edges of *)
(* every chosen path, J collects the add_edge calls of the star.           *)
(***************************************************************************)
\* Variant: no fallback to the original topology.
RECURSIVE StarFrom_NoFallback(_, _, _, _, _)
StarFrom_NoFallback(V, GE, users, k, st) ==
    IF k > Len(users) \/ ~st.ok THEN {st}
    ELSE LET s == users[1]
             d == users[k]
         IN  IF ~has_path(V, st.T, s, d)
             THEN {[st EXCEPT !.ok = FALSE]}
             ELSE UNION { StarFrom_NoFallback(V, GE, users, k + 1,
                                   [ok |-> TRUE,
                                    T  |-> st.T \ PathEdges(path),
                                    J  |-> st.J \o PathEdgeSeq(path),
                                    picks |-> Append(st.picks,
                                        [destination |-> d, path |-> path,
                                         fallback |-> FALSE, searched |-> st.T,
                                         remaining |-> st.T \ PathEdges(path)])])
                          : path \in shortest_path(V, st.T, s, d) }

\* Variant: the edges of a chosen path stay in T.
RECURSIVE StarFrom_KeepEdges(_, _, _, _, _)
StarFrom_KeepEdges(V, GE, users, k, st) ==
    IF k > Len(users) \/ ~st.ok THEN {st}
    ELSE LET s == users[1]
             d == users[k]
             inT == has_path(V, st.T, s, d)
             search == IF inT THEN st.T ELSE GE
         IN  IF ~has_path(V, search, s, d)
             THEN {[st EXCEPT !.ok = FALSE]}
             ELSE UNION { StarFrom_KeepEdges(V, GE, users, k + 1,
                                   [ok |-> TRUE,
                                    T  |-> st.T,
                                    J  |-> st.J \o PathEdgeSeq(path),
                                    picks |-> Append(st.picks,
                                        [destination |-> d, path |-> path,
                                         fallback |-> ~inT, searched |-> search,
                                         remaining |-> st.T])])
                          : path \in shortest_path(V, search, s, d) }

\* The loop over users[1:] from position k on.  picks lists, per destination
\* handled, the path taken, whether it came from the else branch (searched
\* in G), the edge set searched and T after the removals.
RECURSIVE StarFrom(_, _, _, _, _)
StarFrom(V, GE, users, k, st) ==
    IF k > Len(users) \/ ~st.ok THEN {st}
    ELSE LET s == users[1]
             d == users[k]
             inT == has_path(V, st.T, s, d)
             search == IF inT THEN st.T ELSE GE
         IN  IF ~has_path(V, search, s, d)
             THEN {[st EXCEPT !.ok = FALSE]}
             ELSE UNION { StarFrom(V, GE, users, k + 1,
                                   [ok |-> TRUE,
                                    T  |-> st.T \ PathEdges(path),
                                    J  |-> st.J \o PathEdgeSeq(path),
                                    picks |-> Append(st.picks,
                                        [destination |-> d, path |-> path,
                                         fallback |-> ~inT, searched |-> search,
                                         remaining |-> st.T \ PathEdges(path)])])
                          : path \in shortest_path(V, search, s, d) }

\* The possible stars: ok = FALSE stands for the NetworkXNoPath raised by
\* shortest_path(G, ...) when a destination is unreachable in G.
_get_star(V, GE, users) ==
    StarFrom(V, GE, users, 2, [ok |-> TRUE, T |-> GE, J |-> <<>>, picks |-> <<>>])

(***************************************************************************)
(* sim.py: run_entanglement_step.                                          *)
(***************************************************************************)
\* Variant: generation test reversed (p_edge < r).
EdgeStep_Reversed(ent, age, Qc, p, r) ==
    LET aged == IF ent THEN age + 1 ELSE age
        kept == ent /\ ~(aged >= Qc)
        a1   == IF ent /\ aged >= Qc THEN 0 ELSE aged
    IN  IF ~kept /\ p < r
        THEN [entangled |-> TRUE, age |-> 0]
        ELSE [entangled |-> kept, age |-> a1]

\* Variant: generation test p_edge >= r.
EdgeStep_GreaterEqual(ent, age, Qc, p, r) ==
    LET aged == IF ent THEN age + 1 ELSE age
        kept == ent /\ ~(aged >= Qc)
        a1   == IF ent /\ aged >= Qc THEN 0 ELSE aged
    IN  IF ~kept /\ p >= r
        THEN [entangled |-> TRUE, age |-> 0]
        ELSE [entangled |-> kept, age |-> a1]

\* Variant: decoherence only once age > Qc.
EdgeStep_LateDecohere(ent, age, Qc, p, r) ==
    LET aged == IF ent THEN age + 1 ELSE age
        kept == ent /\ ~(aged > Qc)
        a1   == IF ent /\ aged > Qc THEN 0 ELSE aged
    IN  IF ~kept /\ p > r
        THEN [entangled |-> TRUE, age |-> 0]
        ELSE [entangled |-> kept, age |-> a1]

\* Variant: generation is the else branch of the entangled test, so an edge
\* that decoheres in this step waits for the next one.
EdgeStep_NoRegeneration(ent, age, Qc, p, r) ==
    LET aged == IF ent THEN age + 1 ELSE age
        kept == ent /\ ~(aged >= Qc)
        a1   == IF ent /\ aged >= Qc THEN 0 ELSE aged
    IN  IF ~ent /\ p > r
        THEN [entangled |-> TRUE, age |-> 0]
        ELSE [entangled |-> kept, age |-> a1]

\* One edge of the edge loop against its draw r (lines 16-30).
EdgeStep(ent, age, Qc, p, r) ==
    LET aged == IF ent THEN age + 1 ELSE age
        kept == ent /\ ~(aged >= Qc)
        a1   == IF ent /\ aged >= Qc THEN 0 ELSE aged
    IN  IF ~kept /\ p > r
        THEN [entangled |-> TRUE, age |-> 0]
        ELSE [entangled |-> kept, age |-> a1]

\* One node of the node loop (lines 33-41): the age is incremented while
\* entangled; at age >= Qc the node's entangled flag is cleared and the age
\* that is zeroed is the one of the dict left in the variable `edge`.
\* Variant: a node decoheres only once its age exceeds Qc.
NodeStep_LateDecohere(ent, age, Qc) ==
    LET aged == IF ent THEN age + 1 ELSE age
    IN  [entangled |-> ent /\ ~(aged > Qc), age |-> aged, expired |-> aged > Qc]

NodeStep(ent, age, Qc) ==
    LET aged == IF ent THEN age + 1 ELSE age
    IN  [entangled |-> ent /\ ~(aged >= Qc), age |-> aged, expired |-> aged >= Qc]

\* Variant: a record is kept while age <= Qc.
AgePaths_KeepEqual(used, QcN) ==
    LET aged == [k \in DOMAIN used |-> [used[k] EXCEPT !.age = @ + 1]]
        young(rec) == rec.age <= QcN[rec.destination_node]
    IN  SelectSeq(aged, young)

\* Lines 43-48: age every record, keep those younger than Qc of their destination.
AgePaths(used, QcN) ==
    LET aged == [k \in DOMAIN used |-> [used[k] EXCEPT !.age = @ + 1]]
        young(rec) == rec.age < QcN[rec.destination_node]
    IN  SelectSeq(aged, young)

(***************************************************************************)
(* protocols.py: _SD_protocol and _create_bell_pair.                       *)
(***************************************************************************)
\* Variant: the edges of the path stay in H.
_create_bell_pair_KeepInH(st, path) ==
    LET used == PathEdges(path)
        dest == path[Len(path)]
    IN  [H              |-> st.H,
         edge_entangled |-> [e \in DOMAIN st.edge_entangled |->
                                IF e \in used THEN FALSE ELSE st.edge_entangled[e]],
         edge_age       |-> [e \in DOMAIN st.edge_age |->
                                IF e \in used THEN 0 ELSE st.edge_age[e]],
         node_entangled |-> [st.node_entangled EXCEPT ![dest] = TRUE],
         node_age       |-> [st.node_age EXCEPT ![dest] = 0],
         used_nodes     |-> Append(st.used_nodes,
                                [nodes |-> SubSeq(path, 2, Len(path) - 1),
                                 age |-> 0,
                                 destination_node |-> dest,
                                 edge_count |-> Len(path) - 1])]

\* Lines 174-186: consume the edges of the path, mark the destination, log the record.
_create_bell_pair(st, path) ==
    LET used == PathEdges(path)
        dest == path[Len(path)]
    IN  [H              |-> st.H \ used,
         edge_entangled |-> [e \in DOMAIN st.edge_entangled |->
                                IF e \in used THEN FALSE ELSE st.edge_entangled[e]],
         edge_age       |-> [e \in DOMAIN st.edge_age |->
                                IF e \in used THEN 0 ELSE st.edge_age[e]],
         node_entangled |-> [st.node_entangled EXCEPT ![dest] = TRUE],
         node_age       |-> [st.node_age EXCEPT ![dest] = 0],
         used_nodes     |-> Append(st.used_nodes,
                                [nodes |-> SubSeq(path, 2, Len(path) - 1),
                                 age |-> 0,
                                 destination_node |-> dest,
                                 edge_count |-> Len(path) - 1])]

RECURSIVE SDFrom(_, _, _, _)
SDFrom(V, users, k, st) ==
    IF k > Len(users) THEN {st}
    ELSE LET d == users[k]
         IN  IF ~st.node_entangled[d] /\ has_path(V, st.H, users[1], d)
             THEN UNION { SDFrom(V, users, k + 1, _create_bell_pair(st, path))
                          : path \in shortest_path(V, st.H, users[1], d) }
             ELSE SDFrom(V, users, k + 1, st)

\* The states _SD_protocol can leave, one per choice of shortest paths.
_SD_protocol(V, users, st) == SDFrom(V, users, 2, st)

SDSuccess(users, st) == \A k \in 2..Len(users) : st.node_entangled[users[k]]

(***************************************************************************)
(* protocols.py: _CC_protocol and _count_node.                             *)
(***************************************************************************)
Degree(K, n) == Cardinality({ e \in K : n \in e })

\* Variant: every node of degree >= 2 that is not a user is counted.
_count_node_AnyRelay(K, node, users, count_fusion) ==
    IF Degree(K, node) >= 2
    THEN (node \notin Range(users)) \/ count_fusion
    ELSE Degree(K, node) > 2 /\ count_fusion

_count_node(K, node, users, count_fusion) ==
    IF Degree(K, node) = 2
    THEN (node \notin Range(users)) \/ count_fusion
    ELSE Degree(K, node) > 2 /\ count_fusion

IsTree(K) ==
    /\ K # {}
    /\ Cardinality(K) = Cardinality(UNION K) - 1
    /\ \A a, b \in UNION K : has_path(UNION K, K, a, b)

\* steiner_tree(H.subgraph(CC), users): some tree of entangled edges that
\* spans the users and has no leaf outside them; with a single terminal the
\* tree is empty.
steiner_tree(EC, users) ==
    IF Cardinality(Range(users)) <= 1 THEN {{}}
    ELSE { K \in SUBSET EC :
             /\ IsTree(K)
             /\ Range(users) \subseteq UNION K
             /\ \A n \in UNION K : Degree(K, n) = 1 => n \in Range(users) }

RECURSIVE SortedSeq(_)
SortedSeq(S) ==
    IF S = {} THEN <<>>
    ELSE LET m == CHOOSE x \in S : \A y \in S : x <= y
         IN  <<m>> \o SortedSeq(S \ {m})

\* Variant: a failed attempt appends a record as well.
_CC_protocol_AppendAlways(V, H, users, used_nodes, count_fusion) ==
    LET CC == node_connected_component(V, H, users[1])
    IN  IF ~(Range(users) \subseteq CC)
        THEN {[success |-> FALSE,
               used_nodes |-> Append(used_nodes, [nodes |-> <<>>, edge_count |-> 0])]}
        ELSE { [success |-> TRUE,
                used_nodes |-> Append(used_nodes,
                    [nodes |-> SortedSeq({ n \in UNION K :
                                             _count_node(K, n, users, count_fusion) }),
                     edge_count |-> Cardinality(K)])]
               : K \in steiner_tree({ e \in H : e \subseteq CC }, users) }

\* The outcomes of _CC_protocol: success flag and the new used_nodes.
_CC_protocol(V, H, users, used_nodes, count_fusion) ==
    LET CC == node_connected_component(V, H, users[1])
    IN  IF ~(Range(users) \subseteq CC)
        THEN {[success |-> FALSE, used_nodes |-> used_nodes]}
        ELSE { [success |-> TRUE,
                used_nodes |-> Append(used_nodes,
                    [nodes |-> SortedSeq({ n \in UNION K :
                                             _count_node(K, n, users, count_fusion) }),
                     edge_count |-> Cardinality(K)])]
               : K \in steiner_tree({ e \in H : e \subseteq CC }, users) }

(***************************************************************************)
(* protocols.py: the fold of used_nodes on success (lines 100-103) and     *)
(* _multipartite_rate.                                                     *)
(***************************************************************************)
\* Variant: links_used counts the interior nodes instead of edge_count.
RECURSIVE FoldLinks_CountNodes(_)
FoldLinks_CountNodes(used_nodes) ==
    IF used_nodes = <<>> THEN 0
    ELSE Len(Head(used_nodes).nodes) + FoldLinks_CountNodes(Tail(used_nodes))

RECURSIVE FoldLinks(_)
FoldLinks(used_nodes) ==
    IF used_nodes = <<>> THEN 0
    ELSE Head(used_nodes).edge_count + FoldLinks(Tail(used_nodes))

RECURSIVE BumpNodes(_, _)
BumpNodes(count, ns) ==
    IF ns = <<>> THEN count
    ELSE BumpNodes([count EXCEPT ![Head(ns)] = @ + 1], Tail(ns))

RECURSIVE FoldUsage(_, _)
FoldUsage(count, used_nodes) ==
    IF used_nodes = <<>> THEN count
    ELSE FoldUsage(BumpNodes(count, Head(used_nodes).nodes), Tail(used_nodes))

\* Variant: the denominator leaves out fail_count * max_timesteps.
_multipartite_rate_SuccessOnly(gen_times, max_timesteps) ==
    LET isSuccess(x) == x # -1
        successful_attempts == SelectSeq(gen_times, isSuccess)
        t_total == SumSeq(successful_attempts)
    IN  IF t_total = 0
        THEN [ok |-> FALSE, num |-> 0, den |-> 0]
        ELSE [ok |-> TRUE, num |-> Len(successful_attempts), den |-> t_total]

\* Variant: the sum runs over all of gen_times, the -1 entries included.
_multipartite_rate_SumAll(gen_times, max_timesteps) ==
    LET isSuccess(x) == x # -1
        successful_attempts == SelectSeq(gen_times, isSuccess)
        fail_count == Len(gen_times) - Len(successful_attempts)
        t_total == SumSeq(gen_times) + fail_count * max_timesteps
    IN  IF t_total = 0
        THEN [ok |-> FALSE, num |-> 0, den |-> 0]
        ELSE [ok |-> TRUE, num |-> Len(successful_attempts), den |-> t_total]

\* _multipartite_rate: ok = FALSE stands for the ZeroDivisionError of 0 / 0.
_multipartite_rate(gen_times, max_timesteps) ==
    LET isSuccess(x) == x # -1
        successful_attempts == SelectSeq(gen_times, isSuccess)
        fail_count == Len(gen_times) - Len(successful_attempts)
        t_total == SumSeq(successful_attempts) + fail_count * max_timesteps
    IN  IF t_total = 0
        THEN [ok |-> FALSE, num |-> 0, den |-> 0]
        ELSE [ok |-> TRUE, num |-> Len(successful_attempts), den |-> t_total]

(***************************************************************************)
(* The protocol run.                                                       *)
(***************************************************************************)
VARIABLES
    cfg,                    \* the call: graph G, users, timesteps, reps, protocol, count_fusion
    pc,                     \* position in the run
    err,                    \* the exception that ended the run, or "none"
    edges,                  \* G.edges() of the graph the run works on (G, or the star J)
    edge_entangled, edge_age,
    node_entangled, node_age,
    usage_count, usage_fraction,        \* node usage on the graph the run works on
    G_usage_count, G_usage_fraction,    \* node usage on the caller's graph G
    G_edge_entangled, G_edge_age,       \* link state on the caller's graph G
    G_node_entangled, G_node_age,
    used_nodes,
    multipartite_gen_time,
    links_used,
    i, t,
    rate, avg_links_used,
    steps,                  \* history: run_entanglement_step calls, per trial
    attempts,               \* history: results of the strategy, per trial
    successLog,             \* history: used_nodes at the success timestep, per trial
    heap,                   \* graph objects of a get_entangled_subgraph call, dicts by identity
    starCall,               \* a _get_star call: its arguments and what it returned
    countCall               \* the node list of a _CC_protocol record: tree, users, result

runVars == <<cfg, pc, err, edges, edge_entangled, edge_age, node_entangled, node_age,
          usage_count, usage_fraction, G_usage_count, G_usage_fraction,
          G_edge_entangled, G_edge_age, G_node_entangled, G_node_age, used_nodes,
          multipartite_gen_time, links_used, i, t, rate, avg_links_used,
          steps, attempts, successLog>>

labVars == <<heap, starCall, countCall>>
vars == <<runVars, labVars>>

graphVars == <<edge_entangled, edge_age, node_entangled, node_age>>
callerVars == <<G_edge_entangled, G_edge_age, G_node_entangled, G_node_age>>
usageVars == <<usage_count, usage_fraction, G_usage_count, G_usage_fraction>>
resultVars == <<rate, avg_links_used>>
histVars == <<steps, attempts, successLog>>

Pair     == [nodes |-> <<1, 2>>,       adds |-> <<{1, 2}>>]
Bare2    == [nodes |-> <<1, 2>>,       adds |-> <<>>]
Path3    == [nodes |-> <<1, 2, 3>>,    adds |-> <<{1, 2}, {2, 3}>>]
Split3   == [nodes |-> <<1, 2, 3>>,    adds |-> <<{1, 2}>>]
Triangle == [nodes |-> <<1, 2, 3>>,    adds |-> <<{1, 2}, {2, 3}, {1, 3}>>]
Fork4    == [nodes |-> <<1, 2, 3, 4>>, adds |-> <<{1, 2}, {2, 3}, {2, 4}>>]

\* The calls explored: a graph and a user list (source first).
Cases ==
    {[topo |-> Pair, users |-> u] : u \in {<<1, 2>>, <<>>, <<1>>, <<1, 1>>}}
    \cup {[topo |-> Path3, users |-> u] : u \in {<<1, 3>>, <<2, 1, 3>>, <<1, 2, 3>>, <<1, 3, 3>>}}
    \cup {[topo |-> Split3, users |-> <<1, 2, 3>>],
          [topo |-> Triangle, users |-> <<1, 3>>],
          [topo |-> Fork4, users |-> <<1, 3, 4>>],
          [topo |-> Bare2, users |-> <<1, 1, 2>>]}

\* Scenario A / B of the specification: the two-node graph, 5 timesteps, 3 trials.
Scenario == [topo |-> Pair, users |-> <<1, 2>>, timesteps |-> 5, reps |-> 3]

\* One long trial with a destination that is never reached: nodes decohere
\* while links are regenerated.
LongTrial == [topo |-> Split3, users |-> <<1, 2, 3>>, timesteps |-> 3, reps |-> 1]

Protocols == {"SP", "MPG", "MPC"}

\* network: length 1 on every edge; update_graph_params: one p_edge for all
\* edges, one Qc for all edges and nodes.
Config(c, timesteps, reps, proto, cf, p, qc) ==
    [nodes        |-> c.topo.nodes,
     adds         |-> c.topo.adds,
     users        |-> c.users,
     timesteps    |-> timesteps,
     reps         |-> reps,
     proto        |-> proto,
     count_fusion |-> cf,
     length       |-> [e \in Range(c.topo.adds) |-> 1],
     p_edge       |-> [e \in Range(c.topo.adds) |-> p],
     QcE          |-> [e \in Range(c.topo.adds) |-> qc],
     QcN          |-> [n \in Range(c.topo.nodes) |-> qc]]

\* count_fusion is read by _CC_protocol only; the other protocols get the default.
Fusion(proto) == IF proto = "MPC" THEN BOOLEAN ELSE {FALSE}

Configs ==
    UNION { { Config(c, ts, rp, proto, cf, p, qc) :
                c \in Cases, ts \in (-1)..MaxTimesteps, rp \in (-1)..MaxReps,
                cf \in Fusion(proto), p \in Probabilities, qc \in 1..MaxQc }
            \cup
            { Config(Scenario, Scenario.timesteps, Scenario.reps, proto, cf, p, qc) :
                cf \in Fusion(proto), p \in Probabilities, qc \in 1..MaxQc }
            \cup
            { Config(LongTrial, LongTrial.timesteps, LongTrial.reps, proto, cf, p, qc) :
                cf \in Fusion(proto), p \in Probabilities, qc \in 1..MaxQc }
            : proto \in Protocols }

V == Range(cfg.nodes)
E == Range(edges)
NodesOn == cfg.proto # "MPC"        \* nodes=True for SP and MPG

\* The graph is handed over in the link state an earlier run left on it
\* (here: every link and every node still entangled, age 0).
Start(c) ==
    /\ cfg = c
    /\ pc = "init"
    /\ err = "none"
    /\ edges = EdgesView(cfg.nodes, cfg.adds)
    /\ edge_entangled = [e \in Range(cfg.adds) |-> TRUE]
    /\ edge_age = [e \in Range(cfg.adds) |-> 0]
    /\ node_entangled = [n \in Range(cfg.nodes) |-> TRUE]
    /\ node_age = [n \in Range(cfg.nodes) |-> 0]
    /\ G_edge_entangled = edge_entangled
    /\ G_edge_age = edge_age
    /\ G_node_entangled = node_entangled
    /\ G_node_age = node_age
    /\ usage_count = [n \in Range(cfg.nodes) |-> 0]
    /\ usage_fraction = [n \in Range(cfg.nodes) |-> [num |-> 0, den |-> 1]]
    /\ G_usage_count = usage_count
    /\ G_usage_fraction = usage_fraction
    /\ used_nodes = <<>>
    /\ multipartite_gen_time = <<>>
    /\ links_used = 0
    /\ i = 0
    /\ t = 0
    /\ rate = [ok |-> FALSE, num |-> 0, den |-> 0]
    /\ avg_links_used = [num |-> 0, den |-> 1]
    /\ steps = <<>>
    /\ attempts = <<>>
    /\ successLog = <<>>

NoHeap == [phase |-> "off", dicts |-> <<>>, before |-> <<>>,
           G_nodes |-> {}, G_adj |-> <<>>, H_nodes |-> {}, H_adj |-> <<>>]

NoStar == [phase |-> "off", nodes |-> {}, GE |-> {}, data |-> <<>>, users |-> <<>>,
           out |-> [ok |-> FALSE, T |-> {}, J |-> <<>>, picks |-> <<>>],
           J_nodes |-> {}, J_data |-> <<>>]

NoCount == [phase |-> "off", K |-> {}, users |-> <<>>, count_fusion |-> FALSE,
            nodes |-> <<>>]

Init ==
    /\ \E c \in Configs : Start(c)
    /\ heap = NoHeap
    /\ starCall = NoStar
    /\ countCall = NoCount

Raise(kind) ==
    /\ pc' = "error"
    /\ err' = kind

\* MPG_protocol and MPC_protocol hand G itself to _run_protocol; SP_protocol
\* hands over the star J, whose nodes and edges carry attribute dicts of
\* their own (add_nodes_from and dict.update copy the values).
\* Variant: the star shares its attribute dicts with G.
SyncG_SharedDicts ==
    /\ G_edge_entangled' = [e \in DOMAIN G_edge_entangled |->
            IF e \in DOMAIN edge_entangled' THEN edge_entangled'[e] ELSE G_edge_entangled[e]]
    /\ G_edge_age' = [e \in DOMAIN G_edge_age |->
            IF e \in DOMAIN edge_age' THEN edge_age'[e] ELSE G_edge_age[e]]
    /\ G_node_entangled' = node_entangled'
    /\ G_node_age' = node_age'

SyncG ==
    IF cfg.proto # "SP"
    THEN /\ G_edge_entangled' = edge_entangled'
         /\ G_edge_age' = edge_age'
         /\ G_node_entangled' = node_entangled'
         /\ G_node_age' = node_age'
    ELSE UNCHANGED callerVars

\* Entry of SP_protocol / MPG_protocol / MPC_protocol up to the trial loop:
\* _get_star for SP, then reset_graph_usage and the allocation of the times.
Begin ==
    /\ pc = "init"
    /\ UNCHANGED <<cfg, node_entangled, node_age, callerVars, used_nodes, links_used,
                   i, t, resultVars, histVars, labVars>>
    /\ IF cfg.proto = "SP" /\ cfg.users = <<>>
       THEN /\ Raise("IndexError")
            /\ UNCHANGED <<edges, edge_entangled, edge_age, usageVars, multipartite_gen_time>>
       ELSE \E star \in (IF cfg.proto = "SP"
                         THEN _get_star(V, Range(cfg.adds), cfg.users)
                         ELSE {[ok |-> TRUE, T |-> {}, J |-> cfg.adds]}) :
              IF ~star.ok
              THEN /\ Raise("NetworkXNoPath")
                   /\ UNCHANGED <<edges, edge_entangled, edge_age, usageVars,
                                  multipartite_gen_time>>
              ELSE /\ edges' = EdgesView(cfg.nodes, star.J)
                   /\ edge_entangled' = [e \in Range(star.J) |-> edge_entangled[e]]
                   /\ edge_age' = [e \in Range(star.J) |-> edge_age[e]]
                   /\ usage_count' = reset_graph_usage(V).count
                   /\ usage_fraction' = reset_graph_usage(V).fraction
                   /\ IF cfg.proto = "SP"
                      THEN UNCHANGED <<G_usage_count, G_usage_fraction>>
                      ELSE /\ G_usage_count' = usage_count'
                           /\ G_usage_fraction' = usage_fraction'
                   /\ IF cfg.reps < 0
                      THEN /\ Raise("ValueError")
                           /\ UNCHANGED multipartite_gen_time
                      ELSE /\ pc' = "trial"
                           /\ err' = err
                           /\ multipartite_gen_time' = [k \in 1..cfg.reps |-> -1]

\* Top of the trial loop body: reset_graph_state, used_nodes = [], t = 0.
StartTrial ==
    /\ pc = "trial"
    /\ i < cfg.reps
    /\ i' = i + 1
    /\ LET g == reset_graph_state(E, V)
       IN  /\ edge_entangled' = g.edge_entangled
           /\ edge_age' = g.edge_age
           /\ node_entangled' = g.node_entangled
           /\ node_age' = g.node_age
    /\ used_nodes' = <<>>
    /\ t' = 0
    /\ steps' = Append(steps, 0)
    /\ attempts' = Append(attempts, <<>>)
    /\ successLog' = Append(successLog, <<>>)
    /\ pc' = "loop"
    /\ UNCHANGED <<cfg, err, edges, usageVars, multipartite_gen_time, links_used,
                   resultVars, labVars>>
    /\ SyncG

\* One pass of the while loop up to the call of the strategy: t += 1 and
\* run_entanglement_step(G, used_nodes, nodes) with the draws r, one per edge.
StepWith(r) ==
    /\ pc = "loop"
    /\ t < cfg.timesteps
    /\ multipartite_gen_time[i] = -1
    /\ t' = t + 1
    /\ steps' = [steps EXCEPT ![i] = @ + 1]
    /\ UNCHANGED <<cfg, edges, usageVars, multipartite_gen_time, links_used, i,
                   resultVars, attempts, successLog, labVars>>
    /\ LET es == [e \in E |-> EdgeStep(edge_entangled[e], edge_age[e],
                                        cfg.QcE[e], cfg.p_edge[e], r[e])]
           ns == [n \in V |-> NodeStep(node_entangled[n], node_age[n], cfg.QcN[n])]
           expired == { k \in DOMAIN cfg.nodes : ns[cfg.nodes[k]].expired }
           first == CHOOSE k \in expired : \A j \in expired : k <= j
       IN  /\ edge_entangled' = [e \in E |-> es[e].entangled]
           /\ IF ~NodesOn
              THEN /\ edge_age' = [e \in E |-> es[e].age]
                   /\ UNCHANGED <<node_entangled, node_age, used_nodes, err>>
                   /\ pc' = "attempt"
              ELSE IF expired # {} /\ edges = <<>>
              THEN \* `edge` was never bound: the node loop stops at the first expired node
                   /\ Raise("UnboundLocalError")
                   /\ edge_age' = [e \in E |-> es[e].age]
                   /\ node_entangled' = [n \in V |->
                          IF \E k \in 1..first : cfg.nodes[k] = n
                          THEN ns[n].entangled ELSE node_entangled[n]]
                   /\ node_age' = [n \in V |->
                          IF \E k \in 1..first : cfg.nodes[k] = n
                          THEN ns[n].age ELSE node_age[n]]
                   /\ UNCHANGED used_nodes
              ELSE /\ edge_age' = [e \in E |->
                          IF expired # {} /\ e = edges[Len(edges)] THEN 0 ELSE es[e].age]
                   /\ node_entangled' = [n \in V |-> ns[n].entangled]
                   /\ node_age' = [n \in V |-> ns[n].age]
                   /\ used_nodes' = AgePaths(used_nodes, cfg.QcN)
                   /\ pc' = "attempt"
                   /\ err' = err
    /\ SyncG

Step == \E r \in [E -> Draws] : StepWith(r)

\* Variant: the success time is recorded before t is incremented (t - 1).
Conclude_TimeOffByOne(success, un) ==
    /\ used_nodes' = un
    /\ attempts' = [attempts EXCEPT ![i] = Append(@, success)]
    /\ pc' = "loop"
    /\ err' = err
    /\ IF success
       THEN /\ multipartite_gen_time' = [multipartite_gen_time EXCEPT ![i] = t - 1]
            /\ links_used' = links_used + FoldLinks(un)
            /\ usage_count' = FoldUsage(usage_count, un)
            /\ G_usage_count' = IF cfg.proto = "SP" THEN G_usage_count ELSE usage_count'
            /\ successLog' = [successLog EXCEPT ![i] = un]
       ELSE UNCHANGED <<multipartite_gen_time, links_used, usage_count, G_usage_count,
                        successLog>>

\* protocols.py lines 96-103: on success record t and fold used_nodes into the totals.
Conclude(success, un) ==
    /\ used_nodes' = un
    /\ attempts' = [attempts EXCEPT ![i] = Append(@, success)]
    /\ pc' = "loop"
    /\ err' = err
    /\ IF success
       THEN /\ multipartite_gen_time' = [multipartite_gen_time EXCEPT ![i] = t]
            /\ links_used' = links_used + FoldLinks(un)
            /\ usage_count' = FoldUsage(usage_count, un)
            /\ G_usage_count' = IF cfg.proto = "SP" THEN G_usage_count ELSE usage_count'
            /\ successLog' = [successLog EXCEPT ![i] = un]
       ELSE UNCHANGED <<multipartite_gen_time, links_used, usage_count, G_usage_count,
                        successLog>>

\* The rest of the pass: H = get_entangled_subgraph(G), the strategy, the fold.
Attempt ==
    /\ pc = "attempt"
    /\ UNCHANGED <<cfg, edges, usage_fraction, G_usage_fraction, i, t, resultVars, steps,
                   labVars>>
    /\ IF cfg.users = <<>>
       THEN /\ Raise("IndexError")
            /\ UNCHANGED <<graphVars, used_nodes, multipartite_gen_time, links_used,
                           usage_count, G_usage_count, attempts, successLog>>
       ELSE LET H == get_entangled_subgraph(E, edge_entangled)
            IN  IF cfg.proto = "MPC"
                THEN /\ UNCHANGED graphVars
                     /\ \E out \in _CC_protocol(V, H, cfg.users, used_nodes, cfg.count_fusion) :
                          Conclude(out.success, out.used_nodes)
                ELSE \E st \in _SD_protocol(V, cfg.users,
                                   [H |-> H,
                                    edge_entangled |-> edge_entangled,
                                    edge_age |-> edge_age,
                                    node_entangled |-> node_entangled,
                                    node_age |-> node_age,
                                    used_nodes |-> used_nodes]) :
                       /\ edge_entangled' = st.edge_entangled
                       /\ edge_age' = st.edge_age
                       /\ node_entangled' = st.node_entangled
                       /\ node_age' = st.node_age
                       /\ Conclude(SDSuccess(cfg.users, st), st.used_nodes)
    /\ SyncG

\* The while condition fails: budget exhausted or success recorded.
EndTrial ==
    /\ pc = "loop"
    /\ ~(t < cfg.timesteps /\ multipartite_gen_time[i] = -1)
    /\ pc' = "trial"
    /\ UNCHANGED <<cfg, err, edges, graphVars, callerVars, usageVars, used_nodes,
                   multipartite_gen_time, links_used, i, t, resultVars, histVars, labVars>>

\* After the last trial: _multipartite_rate, update_graph_usage, avg_links_used
\* and, for SP_protocol, update_usage_from_subgraph(G, J).
Finish ==
    /\ pc = "trial"
    /\ i >= cfg.reps
    /\ UNCHANGED <<cfg, edges, graphVars, callerVars, usage_count, used_nodes,
                   multipartite_gen_time, links_used, i, t, histVars, labVars>>
    /\ LET er == _multipartite_rate(multipartite_gen_time, cfg.timesteps)
       IN  IF ~er.ok
           THEN /\ Raise("ZeroDivisionError")
                /\ UNCHANGED <<resultVars, usage_fraction, G_usage_count, G_usage_fraction>>
           ELSE /\ rate' = er
                /\ usage_fraction' = update_graph_usage(usage_count, cfg.reps)
                /\ avg_links_used' = [num |-> links_used, den |-> cfg.reps]
                /\ G_usage_count' = usage_count
                /\ G_usage_fraction' = usage_fraction'
                /\ pc' = "done"
                /\ err' = err

Next == Begin \/ StartTrial \/ Step \/ Attempt \/ EndTrial \/ Finish

Spec == Init /\ [][Next]_vars

(***************************************************************************)
(* graph.py: get_entangled_subgraph on graph objects.  A graph holds, per  *)
(* edge, a reference to an attribute dict; dicts are numbered and kept in  *)
(* heap.dicts, so that two graphs may or may not share one.                *)
(***************************************************************************)
Attributes == [entangled : BOOLEAN, age : 0..(MaxQc - 1)]

eligible_edges(G_adj, dicts) == { e \in DOMAIN G_adj : dicts[G_adj[e]].entangled }

\* Variant: the subgraph keeps G's attribute dicts (a view, as G.edge_subgraph).
G_prime_SharedDicts(G_nodes, G_adj, dicts) ==
    [nodes |-> G_nodes,
     adj   |-> [e \in eligible_edges(G_adj, dicts) |-> G_adj[e]],
     dicts |-> dicts]

\* Lines 117-120: a new nx.Graph with the nodes of G; add_edges_from creates
\* one dict per eligible edge and update()s it from G's dict.  The copy of
\* dict k gets the number Len(dicts) + k.
G_prime(G_nodes, G_adj, dicts) ==
    LET n == Len(dicts)
    IN  [nodes |-> G_nodes,
         adj   |-> [e \in eligible_edges(G_adj, dicts) |-> n + G_adj[e]],
         dicts |-> [id \in 1..(2 * n) |-> IF id <= n THEN dicts[id] ELSE dicts[id - n]]]

\* The protocol run is not started while a single function is exercised.
Parked == Config([topo |-> Pair, users |-> <<1, 2>>], 0, 0, "MPG", FALSE, 0, 1)

\* A three-node ring in any link state the edge invariant allows.
HeapInit ==
    /\ Start(Parked)
    /\ \E d \in [DOMAIN Triangle.adds -> Attributes] :
         heap = [phase |-> "source", dicts |-> d,
                 before |-> [e \in Range(Triangle.adds) |->
                               d[CHOOSE k \in DOMAIN Triangle.adds : Triangle.adds[k] = e]],
                 G_nodes |-> Range(Triangle.nodes),
                 G_adj |-> [e \in Range(Triangle.adds) |->
                              CHOOSE k \in DOMAIN Triangle.adds : Triangle.adds[k] = e],
                 H_nodes |-> {}, H_adj |-> <<>>]
    /\ starCall = NoStar
    /\ countCall = NoCount

\* H = get_entangled_subgraph(G)
Derive ==
    /\ heap.phase = "source"
    /\ LET H == G_prime(heap.G_nodes, heap.G_adj, heap.dicts)
       IN  heap' = [heap EXCEPT !.phase = "derived", !.dicts = H.dicts,
                                !.H_nodes = H.nodes, !.H_adj = H.adj]
    /\ UNCHANGED <<runVars, starCall, countCall>>

\* H.remove_edge(u, v), as _create_bell_pair does for the edges of a path.
RemoveEdge ==
    /\ heap.phase \in {"derived", "mutated"}
    /\ \E e \in DOMAIN heap.H_adj :
         heap' = [heap EXCEPT !.phase = "mutated",
                              !.H_adj = [x \in DOMAIN heap.H_adj \ {e} |-> heap.H_adj[x]]]
    /\ UNCHANGED <<runVars, starCall, countCall>>

\* H.edges[u, v][key] = value
SetAttribute ==
    /\ heap.phase \in {"derived", "mutated"}
    /\ \E e \in DOMAIN heap.H_adj, a \in Attributes :
         heap' = [heap EXCEPT !.phase = "mutated", !.dicts[heap.H_adj[e]] = a]
    /\ UNCHANGED <<runVars, starCall, countCall>>

HeapNext == Derive \/ RemoveEdge \/ SetAttribute

HeapSpec == HeapInit /\ [][HeapNext]_vars

(***************************************************************************)
(* protocols.py: _get_star on every graph over three nodes, with a length  *)
(* per edge, and every list of distinct users.                             *)
(***************************************************************************)
StarNodes == Range(Triangle.nodes)
StarEdges == Range(Triangle.adds)
StarUsers ==
    UNION { { u \in [1..n -> StarNodes] : \A a, b \in 1..n : a # b => u[a] # u[b] }
            : n \in 1..Cardinality(StarNodes) }

StarInit ==
    /\ Start(Parked)
    /\ heap = NoHeap
    /\ countCall = NoCount
    /\ \E GE \in SUBSET StarEdges, users \in StarUsers,
          p \in Probabilities, qc \in 1..MaxQc :
         \E len \in [GE -> 1..MaxLength] :
           starCall = [NoStar EXCEPT
                         !.phase = "called", !.nodes = StarNodes, !.GE = GE,
                         !.users = users,
                         !.data = [e \in GE |-> [length |-> len[e], p_edge |-> p, Qc |-> qc]]]

\* J = _get_star(G, users): the loop, then the node set of J (lines 233-234)
\* and the edge data copied from G (lines 249-251).
BuildStar ==
    /\ starCall.phase = "called"
    /\ \E o \in _get_star(starCall.nodes, starCall.GE, starCall.users) :
         starCall' = [starCall EXCEPT
                        !.phase = "returned", !.out = o,
                        !.J_nodes = IF o.ok THEN starCall.nodes ELSE {},
                        !.J_data = IF o.ok
                                   THEN [e \in Range(o.J) |-> starCall.data[e]]
                                   ELSE <<>>]
    /\ UNCHANGED <<runVars, heap, countCall>>

StarNext == BuildStar

StarSpec == StarInit /\ [][StarNext]_vars

(***************************************************************************)
(* protocols.py: the node list of the record _CC_protocol appends, on      *)
(* every tree over four nodes, every set of users and both count_fusion.   *)
(***************************************************************************)
CountNodes == Range(Fork4.nodes)
CountTrees == { K \in SUBSET { {a, b} : a, b \in CountNodes } :
                  IsTree(K) /\ \A e \in K : Cardinality(e) = 2 }

CountInit ==
    /\ Start(Parked)
    /\ heap = NoHeap
    /\ starCall = NoStar
    /\ \E K \in CountTrees, U \in SUBSET CountNodes, cf \in BOOLEAN :
         countCall = [NoCount EXCEPT !.phase = "called", !.K = K,
                                     !.users = SortedSeq(U), !.count_fusion = cf]

\* Line 125: [node for node in K.nodes if _count_node(K, node, users, count_fusion)]
ListUsed ==
    /\ countCall.phase = "called"
    /\ countCall' = [countCall EXCEPT
                        !.phase = "returned",
                        !.nodes = SortedSeq({ n \in UNION countCall.K :
                                     _count_node(countCall.K, n, countCall.users,
                                                 countCall.count_fusion) })]
    /\ UNCHANGED <<runVars, heap, starCall>>

CountNext == ListUsed

CountSpec == CountInit /\ [][CountNext]_vars

(***************************************************************************)
(* Properties.                                                             *)
(***************************************************************************)
NoDup(s) == \A a, b \in DOMAIN s : a # b => s[a] # s[b]

\* Arguments the specification accepts: positive reps and timesteps, at least
\* two users, no user listed twice.
ValidArgs ==
    /\ cfg.reps > 0
    /\ cfg.timesteps > 0
    /\ Len(cfg.users) >= 2
    /\ NoDup(cfg.users)

TotalSteps == SumSeq(steps)

\* Trials whose while loop has ended.
Completed == { k \in 1..i : k < i \/ pc \in {"trial", "done"}
                                  \/ (pc = "error" /\ err = "ZeroDivisionError") }

SuccessCount == Cardinality({ k \in DOMAIN multipartite_gen_time : multipartite_gen_time[k] # -1 })
FailureCount == Cardinality({ k \in DOMAIN multipartite_gen_time : multipartite_gen_time[k] = -1 })

\* sum of the success times + failure_count * timesteps, trial by trial
Denominator ==
    SumSeq([k \in DOMAIN multipartite_gen_time |->
              IF multipartite_gen_time[k] = -1 THEN cfg.timesteps
              ELSE multipartite_gen_time[k]])

\* C1: an invalid configuration (reps <= 0, timesteps <= 0, fewer than 2
\* users, duplicate users) never executes a trial step and never returns a
\* result tuple.
C1_InvalidRejected ==
    ~ValidArgs => (pc # "done" /\ TotalSteps = 0)

\* C2: every finished trial records -1 or a time t in 1..timesteps; with t
\* the strategy returned false at timesteps 1..t-1 and true at t and exactly
\* t steps ran; with -1 exactly `timesteps` steps ran and every attempt
\* returned false.  Each step is followed by one attempt before the next
\* step.  (Stated for timesteps >= 0, where "exactly timesteps steps" is
\* meaningful.)
C2_TrialTimes ==
    cfg.timesteps >= 0 =>
        /\ \A k \in Completed :
              LET x == multipartite_gen_time[k]
              IN  \/ /\ x = -1
                     /\ steps[k] = cfg.timesteps
                     /\ Len(attempts[k]) = cfg.timesteps
                     /\ \A j \in DOMAIN attempts[k] : ~attempts[k][j]
                  \/ /\ x \in 1..cfg.timesteps
                     /\ steps[k] = x
                     /\ Len(attempts[k]) = x
                     /\ \A j \in DOMAIN attempts[k] : attempts[k][j] <=> (j = x)
        /\ pc = "loop" => (steps[i] = t /\ Len(attempts[i]) = t)
        /\ pc = "attempt" => (steps[i] = t /\ Len(attempts[i]) = t - 1)

C2_Witness ==
    /\ pc = "done"
    /\ \E k \in Completed : multipartite_gen_time[k] >= 2
    /\ \E k \in Completed : multipartite_gen_time[k] = -1

\* C3: with valid arguments MPG_protocol and MPC_protocol never end in an
\* error, never get stuck, execute at most reps * timesteps steps and return
\* exactly reps outcomes, each -1 or a time in 1..timesteps, also when a
\* destination is unreachable from users[0].
C3_NoErrorOnValidRun ==
    (ValidArgs /\ cfg.proto \in {"MPG", "MPC"}) =>
        /\ pc # "error"
        /\ pc # "done" => ENABLED Next
        /\ TotalSteps <= cfg.reps * cfg.timesteps
        /\ pc = "done" =>
              /\ Len(multipartite_gen_time) = cfg.reps
              /\ Completed = 1..cfg.reps
              /\ \A k \in 1..cfg.reps :
                    multipartite_gen_time[k] \in {-1} \cup (1..cfg.timesteps)

Unreachable ==
    \E k \in 2..Len(cfg.users) : ~has_path(V, Range(cfg.adds), cfg.users[1], cfg.users[k])

C3_Witness ==
    /\ ValidArgs
    /\ cfg.proto \in {"MPG", "MPC"}
    /\ Unreachable
    /\ pc = "done"
    /\ cfg.reps >= 2
    /\ \A k \in 1..cfg.reps : multipartite_gen_time[k] = -1

ScenarioTopology ==
    /\ cfg.nodes = Scenario.topo.nodes
    /\ cfg.adds = Scenario.topo.adds
    /\ cfg.users = Scenario.users
    /\ cfg.timesteps = Scenario.timesteps
    /\ cfg.reps = Scenario.reps

ScenarioA ==
    /\ ScenarioTopology
    /\ \A e \in Range(cfg.adds) : cfg.p_edge[e] = Certain /\ cfg.QcE[e] = 1
    /\ \A n \in V : cfg.QcN[n] = 1

\* C4: Scenario A (two nodes, one edge, p_edge = 1, Qc = 1, users = [A, B],
\* timesteps = 5, reps = 3): under each protocol and for all draws the run
\* returns per_trial_times = [1, 1, 1], rate = 1 and avg_links_used = 1.
C4_ScenarioA ==
    ScenarioA =>
        /\ pc # "error"
        /\ \A k \in Completed : multipartite_gen_time[k] = 1
        /\ pc = "done" =>
              /\ multipartite_gen_time = <<1, 1, 1>>
              /\ rate.ok /\ rate.num = rate.den
              /\ avg_links_used.num = avg_links_used.den

C4_Witness == ScenarioA /\ pc = "done" /\ cfg.proto = "SP"

AllPZero == \A e \in Range(cfg.adds) : cfg.p_edge[e] = 0

OtherDestination == \E k \in 2..Len(cfg.users) : cfg.users[k] # cfg.users[1]

\* "No edge is ever entangled" is read from the first trial on: the links the
\* graph arrives with are cleared by the first reset_graph_state.
ScenarioBOutcome ==
    /\ i >= 1 => \A e \in E : ~edge_entangled[e]
    /\ \A k \in DOMAIN multipartite_gen_time : multipartite_gen_time[k] = -1
    /\ \A n \in V : usage_count[n] = 0 /\ G_usage_count[n] = 0
    /\ links_used = 0
    /\ pc # "error"
    /\ pc = "done" =>
          /\ rate.ok /\ rate.num = 0 /\ rate.den = cfg.reps * cfg.timesteps
          /\ avg_links_used.num = 0
          /\ ScenarioTopology => multipartite_gen_time = <<-1, -1, -1>>

C6_EdgeInvariant ==
    \A e \in E :
        /\ ~edge_entangled[e] => edge_age[e] = 0
        /\ edge_entangled[e] => (0 <= edge_age[e] /\ edge_age[e] < cfg.QcE[e])

C6_Witness ==
    /\ pc = "attempt"
    /\ \E e \in E : edge_entangled[e] /\ edge_age[e] = 1
    /\ \E e \in E : ~edge_entangled[e]

\* C7: with node simulation on (SP, MPG), after every run_entanglement_step
\* every node has entangled = false => age = 0 and
\* entangled = true => 0 <= age < Qc.
C7_NodeInvariant ==
    (NodesOn /\ pc = "attempt") =>
        \A n \in V :
            /\ ~node_entangled[n] => node_age[n] = 0
            /\ node_entangled[n] => (0 <= node_age[n] /\ node_age[n] < cfg.QcN[n])

\* C8: after a completed run every node has 0 <= usage_count <= reps, i.e.
\* usage_fraction in [0, 1].
C8_UsageFractionBounded ==
    pc = "done" =>
        \A n \in V :
            /\ 0 <= usage_count[n] /\ usage_count[n] <= cfg.reps
            /\ 0 <= usage_fraction[n].num /\ usage_fraction[n].num <= usage_fraction[n].den

Succeeded == { k \in DOMAIN successLog : multipartite_gen_time[k] # -1 }

LoggedLinks ==
    SumSeq([k \in DOMAIN successLog |->
              IF k \in Succeeded
              THEN SumSeq([j \in DOMAIN successLog[k] |-> successLog[k][j].edge_count])
              ELSE 0])

LoggedOccurrences(n) ==
    UNION { UNION { { <<k, j, x>> : x \in { y \in DOMAIN successLog[k][j].nodes :
                                               successLog[k][j].nodes[y] = n } }
                    : j \in DOMAIN successLog[k] }
            : k \in Succeeded }

\* C9: links_used is the sum, over the successful trials, of edge_count of
\* the records in used_paths at the success timestep; usage_count[n] is the
\* number of (successful trial, record, occurrence of n) triples; at the end
\* usage_fraction[n] * reps = usage_count[n] and
\* avg_links_used * reps = links_used.
C9_UsageAccounting ==
    /\ links_used = LoggedLinks
    /\ \A n \in V : usage_count[n] = Cardinality(LoggedOccurrences(n))
    /\ pc = "done" =>
          /\ \A n \in V :
                /\ usage_fraction[n].den # 0
                /\ usage_fraction[n].num * cfg.reps = usage_count[n] * usage_fraction[n].den
          /\ avg_links_used.den # 0
          /\ avg_links_used.num * cfg.reps = links_used * avg_links_used.den

C9_Witness ==
    /\ pc = "done"
    /\ \E k \in Succeeded : Len(successLog[k]) >= 2
    /\ \E k \in DOMAIN multipartite_gen_time : multipartite_gen_time[k] = -1
    /\ \E n \in V : usage_count[n] >= 2

\* C10: a returned rate satisfies rate * (sum of success times +
\* failure_count * timesteps) = success_count; with a zero denominator the
\* aggregator raises instead of returning.
C10_Rate ==
    /\ pc = "done" =>
          /\ Denominator # 0
          /\ rate.ok /\ rate.den # 0
          /\ rate.num * Denominator = SuccessCount * rate.den
    /\ (pc = "trial" /\ i >= cfg.reps /\ Denominator = 0) => ~ENABLED (Finish /\ pc' = "done")
    /\ (pc = "error" /\ err = "ZeroDivisionError") => Denominator = 0

C10_Witness ==
    /\ pc = "done"
    /\ SuccessCount >= 1
    /\ FailureCount >= 1
    /\ \E k \in DOMAIN multipartite_gen_time : multipartite_gen_time[k] >= 2

\* C11: get_entangled_subgraph(G) has the nodes of G and exactly the edges
\* of G that are entangled; whatever edges are then removed from the result
\* and whatever is written into its edge attributes, G keeps its edge set
\* and every edge of G keeps the attributes it had at the call.
C11_IndependentCopy ==
    heap.phase \in {"derived", "mutated"} =>
        /\ heap.H_nodes = heap.G_nodes
        /\ heap.phase = "derived" =>
              /\ DOMAIN heap.H_adj = { e \in DOMAIN heap.before : heap.before[e].entangled }
              /\ \A e \in DOMAIN heap.H_adj : heap.dicts[heap.H_adj[e]] = heap.before[e]
        /\ DOMAIN heap.G_adj = DOMAIN heap.before
        /\ \A e \in DOMAIN heap.G_adj : heap.dicts[heap.G_adj[e]] = heap.before[e]

\* An entangled edge of G was removed from the result and another edge of
\* the result now carries attributes that differ from G's.
C11_Witness ==
    /\ heap.phase = "mutated"
    /\ \E e \in DOMAIN heap.G_adj : heap.before[e].entangled /\ e \notin DOMAIN heap.H_adj
    /\ \E e \in DOMAIN heap.H_adj : heap.dicts[heap.H_adj[e]] # heap.dicts[heap.G_adj[e]]

\* C12: no step of a run changes the node set, the edge set, length, p_edge
\* or Qc of the caller's graph G (all protocols).  Under SP_protocol no step
\* changes entangled or age of an edge or node of G either; usage_count and
\* usage_fraction of G change only with the return of the run and then
\* equal, node by node, the values accumulated on the star.
C12_CallerGraphFrame ==
    [][/\ cfg' = cfg
       /\ cfg.proto = "SP" =>
             /\ UNCHANGED callerVars
             /\ pc' # "done" => UNCHANGED <<G_usage_count, G_usage_fraction>>
             /\ pc' = "done" => /\ G_usage_count' = usage_count'
                                /\ G_usage_fraction' = usage_fraction']_vars

\* A returned SP run: a node of G has a usage count, and the star's links
\* are in another state than the links of G.
C12_Witness ==
    /\ cfg.proto = "SP"
    /\ pc = "done"
    /\ \E n \in V : G_usage_count[n] > 0 /\ G_usage_count[n] = usage_count[n]
    /\ \E e \in E : edge_entangled[e] # G_edge_entangled[e]

StarReachable ==
    \A k \in 2..Len(starCall.users) :
        has_path(starCall.nodes, starCall.GE, starCall.users[1], starCall.users[k])

\* C13: _get_star returns a star exactly when every destination is
\* reachable from users[0] in G, a destination without a path in the working
\* copy taking a path of G; the star has the nodes of G, each of its edges
\* is an edge of G with G's length, p_edge and Qc, and it joins users[0] to
\* every destination.
C13_StarBuilt ==
    starCall.phase = "returned" =>
        /\ starCall.out.ok <=> StarReachable
        /\ \A k \in DOMAIN starCall.out.picks :
              starCall.out.picks[k].fallback =>
                  PathEdges(starCall.out.picks[k].path) \subseteq starCall.GE
        /\ starCall.out.ok =>
              /\ starCall.J_nodes = starCall.nodes
              /\ \A e \in Range(starCall.out.J) :
                    e \in starCall.GE /\ starCall.J_data[e] = starCall.data[e]
              /\ \A k \in 2..Len(starCall.users) :
                    has_path(starCall.J_nodes, Range(starCall.out.J),
                             starCall.users[1], starCall.users[k])

\* A star was returned although a destination had no path left in the
\* working copy: its path was taken from G.
C13_Witness ==
    /\ starCall.phase = "returned"
    /\ starCall.out.ok
    /\ \E k \in DOMAIN starCall.out.picks :
         starCall.out.picks[k].fallback /\ Len(starCall.out.picks[k].path) > 1

RemainingBefore(k) ==
    IF k = 1 THEN starCall.GE ELSE starCall.out.picks[k - 1].remaining

\* C14: the destinations are handled in the order of users[1:]; a path is
\* taken from the original topology exactly when the destination has no
\* path left in `remaining`; a path found in `remaining` shares no edge with
\* the path of any earlier destination, so two paths share an edge only if
\* the later one is a fallback; and no edge of a chosen path is in
\* `remaining` once the destination is handled.
C14_EdgeDisjoint ==
    starCall.phase = "returned" =>
        LET picks == starCall.out.picks
        IN  /\ starCall.out.ok => Len(picks) = Len(starCall.users) - 1
            /\ \A k \in DOMAIN picks :
                  /\ picks[k].destination = starCall.users[k + 1]
                  /\ picks[k].fallback <=>
                        ~has_path(starCall.nodes, RemainingBefore(k),
                                  starCall.users[1], picks[k].destination)
                  /\ ~picks[k].fallback =>
                        \A j \in 1..(k - 1) :
                            PathEdges(picks[k].path) \cap PathEdges(picks[j].path) = {}
                  /\ PathEdges(picks[k].path) \cap picks[k].remaining = {}
                  /\ PathEdges(picks[k].path) \cap starCall.out.T = {}

\* Two destinations, each with a path of at least one edge, the second one
\* found in `remaining`.
C14_Witness ==
    /\ starCall.phase = "returned"
    /\ starCall.out.ok
    /\ Len(starCall.out.picks) = 2
    /\ ~starCall.out.picks[2].fallback
    /\ Len(starCall.out.picks[1].path) > 1
    /\ Len(starCall.out.picks[2].path) > 1

RECURSIVE PathLength(_, _)
PathLength(path, data) ==
    IF Len(path) <= 1 THEN 0
    ELSE data[{path[1], path[2]}].length + PathLength(Tail(path), data)

\* C15: every path _get_star chooses has the least total length among the
\* paths from users[0] to the destination in the graph it was searched in.
C15_WeightedShortest ==
    starCall.phase = "returned" =>
        \A k \in DOMAIN starCall.out.picks :
            LET pick == starCall.out.picks[k]
            IN  \A q \in SimplePaths(starCall.nodes, pick.searched,
                                     starCall.users[1], pick.destination) :
                    PathLength(pick.path, starCall.data) <= PathLength(q, starCall.data)

Entangled == { e \in E : edge_entangled[e] }

LastAttempt == attempts[i][Len(attempts[i])]

\* Some tree of n edges inside H connects all users (no edge for one user).
TreeInside(H, users, n) ==
    \E K \in SUBSET H :
        /\ Cardinality(K) = n
        /\ IF K = {} THEN Cardinality(Range(users)) <= 1
           ELSE IsTree(K) /\ Range(users) \subseteq UNION K

\* C16: an attempt of _CC_protocol raises nothing; it fails exactly when
\* some user is outside the component of users[0] in the entangled
\* subgraph, and then used_nodes is as before; otherwise it succeeds and
\* appends one record whose edge_count is the size of a tree of entangled
\* edges connecting the users.  Under MPC_protocol used_nodes is empty
\* before every attempt and after a failed one, and holds one record after
\* the successful one.
C16_ConnectedComponent ==
    [][(pc = "attempt" /\ cfg.proto = "MPC" /\ cfg.users # <<>>) =>
          /\ pc' = "loop"
          /\ used_nodes = <<>>
          /\ LastAttempt' <=>
                \A k \in DOMAIN cfg.users :
                    has_path(V, Entangled, cfg.users[1], cfg.users[k])
          /\ ~LastAttempt' => used_nodes' = used_nodes
          /\ LastAttempt' =>
                /\ Len(used_nodes') = Len(used_nodes) + 1
                /\ SubSeq(used_nodes', 1, Len(used_nodes)) = used_nodes
                /\ TreeInside(Entangled, cfg.users,
                              used_nodes'[Len(used_nodes')].edge_count)]_vars

\* A trial of MPC_protocol that failed at its first timestep and succeeded
\* at the second with a tree of two edges.
C16_Witness ==
    /\ cfg.proto = "MPC"
    /\ pc = "loop"
    /\ i >= 1
    /\ attempts[i] = <<FALSE, TRUE>>
    /\ Len(used_nodes) = 1
    /\ used_nodes[1].edge_count = 2

\* The path a record of _create_bell_pair stands for, and its edges.
RecordPath(rec) ==
    IF rec.edge_count = 0 THEN <<cfg.users[1]>>
    ELSE <<cfg.users[1]>> \o rec.nodes \o <<rec.destination_node>>

RecordEdges(rec) == PathEdges(RecordPath(rec))

\* C17: the records an attempt of _SD_protocol appends use entangled edges
\* only, no edge twice, and every edge used is left with entangled = False
\* and age = 0; an edge turns entangled in run_entanglement_step only, so a
\* used edge serves a later path only after a step has entangled it again.
C17_LinkUsedOnce ==
    [][/\ (pc = "attempt" /\ NodesOn /\ cfg.users # <<>>) =>
             LET new == (Len(used_nodes) + 1)..Len(used_nodes')
             IN  /\ SubSeq(used_nodes', 1, Len(used_nodes)) = used_nodes
                 /\ \A k \in new :
                       /\ RecordEdges(used_nodes'[k]) \subseteq Entangled
                       /\ \A e \in RecordEdges(used_nodes'[k]) :
                             ~edge_entangled'[e] /\ edge_age'[e] = 0
                 /\ \A j, k \in new :
                       j # k => RecordEdges(used_nodes'[j]) \cap RecordEdges(used_nodes'[k]) = {}
       /\ pc \notin {"init", "loop"} =>
             \A e \in E : edge_entangled'[e] => edge_entangled[e]]_vars

\* Two paths of at least one edge made at the same timestep.
C17_Witness ==
    /\ NodesOn
    /\ pc = "loop"
    /\ \E j, k \in DOMAIN used_nodes :
         /\ j # k
         /\ used_nodes[j].age = 0 /\ used_nodes[k].age = 0
         /\ used_nodes[j].edge_count >= 1 /\ used_nodes[k].edge_count >= 1

\* C18: in a step taken with the draws r, an entangled edge whose age
\* reaches Qc ends the step entangled iff p_edge > r, and then with age 0;
\* an edge with p_edge = 1 ends every step entangled; an edge with Qc = 1
\* ends the step entangled iff p_edge > r, whatever its state before.
C18_StepOrder ==
    [][\A r \in [E -> Draws] :
          StepWith(r) =>
              \A e \in E :
                  /\ (edge_entangled[e] /\ edge_age[e] + 1 >= cfg.QcE[e]) =>
                        /\ edge_entangled'[e] <=> cfg.p_edge[e] > r[e]
                        /\ edge_entangled'[e] => edge_age'[e] = 0
                  /\ cfg.p_edge[e] = Certain => edge_entangled'[e]
                  /\ cfg.QcE[e] = 1 =>
                        (edge_entangled'[e] <=> cfg.p_edge[e] > r[e])]_vars

\* Second step of a trial of MPC_protocol (links are not consumed): an edge
\* with p_edge = 1 and Qc = 1, entangled in the first step, has decohered
\* and is entangled again.
C18_Witness ==
    /\ cfg.proto = "MPC"
    /\ pc = "attempt"
    /\ t = 2
    /\ \E e \in E : cfg.p_edge[e] = Certain /\ cfg.QcE[e] = 1 /\ edge_entangled[e]

\* after is before with every age one higher and without the records whose
\* new age is not below Qc of their destination, in the same order.
AgedAndPruned(before, after) ==
    LET keep == { j \in DOMAIN before :
                    before[j].age + 1 < cfg.QcN[before[j].destination_node] }
    IN  \E f \in [DOMAIN after -> DOMAIN before] :
            /\ \A a, b \in DOMAIN after : a < b => f[a] < f[b]
            /\ { f[a] : a \in DOMAIN after } = keep
            /\ \A a \in DOMAIN after : after[a] = [before[f[a]] EXCEPT !.age = @ + 1]

\* C19: under SP_protocol and MPG_protocol an attempt leaves the earlier
\* records as they are and appends records of age 0; a step adds 1 to the
\* age of every record and drops exactly those whose age is then >= Qc of
\* their destination_node, so a record present after a step has a smaller
\* age.  Under MPC_protocol a step leaves used_nodes as it is.
C19_RecordAging ==
    [][/\ (pc = "attempt" /\ NodesOn /\ cfg.users # <<>>) =>
             /\ SubSeq(used_nodes', 1, Len(used_nodes)) = used_nodes
             /\ \A k \in (Len(used_nodes) + 1)..Len(used_nodes') : used_nodes'[k].age = 0
       /\ (pc = "loop" /\ pc' = "attempt" /\ NodesOn) =>
             /\ AgedAndPruned(used_nodes, used_nodes')
             /\ \A k \in DOMAIN used_nodes' :
                   used_nodes'[k].age < cfg.QcN[used_nodes'[k].destination_node]
       /\ (pc = "loop" /\ ~NodesOn) => used_nodes' = used_nodes]_vars

\* After a step: one record has aged to 1 and is kept (Qc = 2).
C19_Witness ==
    /\ NodesOn
    /\ pc = "attempt"
    /\ \E k \in DOMAIN used_nodes :
         used_nodes[k].age = 1 /\ cfg.QcN[used_nodes[k].destination_node] = 2

\* C20: a trial starts (i advances) with every edge and node at
\* entangled = False, age = 0, with used_nodes empty and no step taken;
\* usage_count is zero when the first trial is reached and afterwards never
\* decreases.
C20_TrialIsolation ==
    [][/\ i' # i =>
             /\ \A e \in E : ~edge_entangled'[e] /\ edge_age'[e] = 0
             /\ \A n \in V : ~node_entangled'[n] /\ node_age'[n] = 0
             /\ used_nodes' = <<>>
             /\ t' = 0 /\ steps'[i'] = 0
       /\ (pc = "init" /\ pc' = "trial") => \A n \in V : usage_count'[n] = 0
       /\ pc # "init" => \A n \in V : usage_count'[n] >= usage_count[n]]_vars

\* The second trial starts cleared while a node keeps the usage count of
\* the first trial.
C20_Witness ==
    /\ pc = "loop"
    /\ i = 2
    /\ t = 0
    /\ \E n \in V : usage_count[n] > 0
    /\ \A e \in E : ~edge_entangled[e]
    /\ used_nodes = <<>>

EdgesAt(n) == { e \in countCall.K : n \in e }

\* C21: a node of the tree K is listed as used iff it has two tree edges and
\* is not a user or count_fusion is set, or it has more than two tree edges
\* and count_fusion is set; a node with fewer than two tree edges is never
\* listed, and nothing outside K is.
C21_NodeClassification ==
    countCall.phase = "returned" =>
        /\ Range(countCall.nodes) \subseteq UNION countCall.K
        /\ \A n \in UNION countCall.K :
              LET isUser == \E k \in DOMAIN countCall.users : countCall.users[k] = n
                  listed == \E k \in DOMAIN countCall.nodes : countCall.nodes[k] = n
              IN  /\ listed <=>
                        \/ Cardinality(EdgesAt(n)) = 2 /\ (~isUser \/ countCall.count_fusion)
                        \/ Cardinality(EdgesAt(n)) > 2 /\ countCall.count_fusion
                  /\ Cardinality(EdgesAt(n)) < 2 => ~listed
                  /\ (Cardinality(EdgesAt(n)) = 2 /\ ~countCall.count_fusion /\ listed)
                        => ~isUser

\* Without count_fusion, on a tree with two nodes of degree 2: the one that
\* is a user is left out, the other one is listed.
C21_Witness ==
    /\ countCall.phase = "returned"
    /\ ~countCall.count_fusion
    /\ \E a, b \in UNION countCall.K :
         /\ Cardinality(EdgesAt(a)) = 2 /\ Cardinality(EdgesAt(b)) = 2
         /\ a \in Range(countCall.users) /\ a \notin Range(countCall.nodes)
         /\ b \notin Range(countCall.users) /\ b \in Range(countCall.nodes)

RecordsFor(d) == { j \in DOMAIN used_nodes : used_nodes[j].destination_node = d }

\* C22: under SP_protocol and MPG_protocol with distinct users, after every
\* step and after every attempt a destination is marked entangled iff
\* used_nodes holds a record for it, it never holds two, and the record has
\* the age of the destination node; the attempt succeeds iff every
\* destination is marked entangled, and used_nodes then holds one record
\* per destination and nothing else.
C22_RecordPerDestination ==
    (/\ NodesOn /\ cfg.users # <<>> /\ NoDup(cfg.users)
     /\ pc \in {"attempt", "loop"}) =>
        /\ \A k \in 2..Len(cfg.users) :
              LET d == cfg.users[k]
              IN  /\ Cardinality(RecordsFor(d)) <= 1
                  /\ node_entangled[d] <=> Cardinality(RecordsFor(d)) = 1
                  /\ \A j \in RecordsFor(d) : used_nodes[j].age = node_age[d]
        /\ (pc = "loop" /\ attempts[i] # <<>>) =>
              /\ LastAttempt <=> \A k \in 2..Len(cfg.users) : node_entangled[cfg.users[k]]
              /\ LastAttempt =>
                    /\ Len(used_nodes) = Len(cfg.users) - 1
                    /\ \A j \in DOMAIN used_nodes :
                          \E k \in 2..Len(cfg.users) :
                              used_nodes[j].destination_node = cfg.users[k]

\* A successful attempt whose two records were made at different timesteps.
C22_Witness ==
    /\ NodesOn
    /\ NoDup(cfg.users)
    /\ pc = "loop"
    /\ attempts[i] # <<>>
    /\ LastAttempt
    /\ Len(used_nodes) = 2
    /\ used_nodes[1].age = 1
    /\ used_nodes[2].age = 0

\* C23: the age of an entangled edge is the number of steps since it was
\* generated: an edge that a step leaves entangled has age 0 if the step
\* generated it and one more than before if it was kept, whether or not the
\* step also ages nodes and records; so no link outlives Qc steps.
C23_EdgeAgeIsElapsed ==
    [][\A r \in [E -> Draws] :
          (StepWith(r) /\ pc' = "attempt") =>
              \A e \in E :
                  edge_entangled'[e] =>
                      edge_age'[e] = IF edge_entangled[e] /\ edge_age[e] + 1 < cfg.QcE[e]
                                     THEN edge_age[e] + 1
                                     ELSE 0]_vars

====
